---- MODULE Spec2Model ----
(***************************************************************************)
(* Model of the follow-graph tools of bsky_friend_network_analyzer:        *)
(*   filter_graph.py   (backbone selection)    -> SpecFilter               *)
(*   analyze_graph.py  (structural report)     -> SpecAnalyze              *)
(*   bsky_friend_network_analyzer.py (crawler) -> SpecCrawl                *)
(* Account identifiers are modelled by the integers 1..NumAccounts; their  *)
(* numeric order stands for the lexical order of the identifier strings.   *)
(* The value 0 stands for "no account": a root of None and a blank         *)
(* linked_from.                                                            *)
(*                                                                         *)
(* Python iterates a set of strings in an order that depends on the        *)
(* process's string hashing, and sorted() is stable.  A sort whose input   *)
(* is such an iteration therefore leaves tied elements in an order the     *)
(* program does not control: every sort below draws the order of its ties  *)
(* nondeterministically.                                                   *)
(***************************************************************************)
EXTENDS Integers, Sequences, FiniteSets, TLC

NumAccounts == 3
MaxCap == 3
MaxHops == 2

Accounts == 1..NumAccounts
NoAccount == 0
Caps == (0 - 1)..MaxCap

VARIABLES
  pc,              \* position in the running main()
  data,            \* the input JSON: account -> its "following" list
  args,            \* the parsed command line
  nodes, edges,    \* the DiGraph G
  btw,             \* filter: betweenness as [num, den], num[n] / den
  reciprocal_nodes, ego, keep0, keep,
  kept_edges,      \* filter: the list induced_edge_cap returns
  out,             \* filter: the adjacency JSON written
  order,           \* analyze: the order in which G holds its nodes
  edge_list,       \* analyze: the list load_graph returns
  top_in_degree, top_out_degree,  \* analyze: the degree rankings
  reciprocals,     \* analyze: the list of mutual pairs
  shared_counts,   \* analyze: the Counter of shared follows per pair
  cofollow,        \* analyze: the co-follow result list
  report,          \* analyze: the report written
  remote,          \* crawler: the follows the network serves, account -> list
  graph,           \* crawler: the graph store, name -> node record
  visited,         \* crawler: the identifiers enqueued so far
  q                \* crawler: the BFS queue of <<actor, depth>>

filterVars == <<btw, reciprocal_nodes, ego, keep0, keep, kept_edges, out>>
analyzeVars == <<order, edge_list, top_in_degree, top_out_degree, reciprocals,
                 shared_counts, cofollow, report>>
crawlVars == <<remote, graph, visited, q>>
vars == <<pc, data, args, nodes, edges, filterVars, analyzeVars, crawlVars>>

----------------------------------------------------------------------------
(* Generic helpers *)

Min(a, b) == IF a <= b THEN a ELSE b
Max(a, b) == IF a >= b THEN a ELSE b

RECURSIVE SumOver(_, _)
SumOver(S, f) ==
  IF S = {} THEN 0
  ELSE LET x == CHOOSE x \in S : TRUE IN f[x] + SumOver(S \ {x}, f)

RECURSIVE SortedSeq(_)
\* sorted(S): the elements of S ascending
SortedSeq(S) ==
  IF S = {} THEN <<>>
  ELSE LET m == CHOOSE m \in S : \A x \in S : m <= x
       IN <<m>> \o SortedSeq(S \ {m})

Range(s) == {s[i] : i \in 1..Len(s)}

\* len(list[:k]) for a list of n elements: a negative k counts from the end
SliceLen(n, k) == IF k >= 0 THEN Min(k, n) ELSE Max(0, n + k)

\* The sets that  sorted(S, key, reverse=True)[:k]  can hold, ge being the
\* pairs <<a, b>> with key(a) >= key(b): the sort is stable and the order of S
\* is not fixed.
TopSets(S, ge, k) ==
  {T \in SUBSET S :
     /\ Cardinality(T) = SliceLen(Cardinality(S), k)
     /\ \A t \in T : \A s \in S \ T : <<t, s>> \in ge}

RECURSIVE TopLists(_, _, _)
\* The lists that  sorted(S, key, reverse=True)[:k]  can be (k >= 0 here).
TopLists(S, ge, k) ==
  IF k = 0 \/ S = {} THEN {<<>>}
  ELSE UNION {{<<e>> \o r : r \in TopLists(S \ {e}, ge, k - 1)} :
                e \in {e \in S : \A x \in S : <<e, x>> \in ge}}

----------------------------------------------------------------------------
(* Graph Model: what networkx's DiGraph gives the programs *)

InDegree(E, n) == Cardinality({e \in E : e[2] = n})
OutDegree(E, n) == Cardinality({e \in E : e[1] = n})
Successors(E, n) == {e[2] : e \in {e \in E : e[1] = n}}
\* G.to_undirected().neighbors(u)
Neighbors(E, u) == {e[2] : e \in {e \in E : e[1] = u}} \cup {e[1] : e \in {e \in E : e[2] = u}}
\* G.subgraph(keep_nodes).edges()
Induced(E, K) == {e \in E : e[1] \in K /\ e[2] \in K}

\* load_crawler_json: the node set
LoadNodes(d, ext) ==
  DOMAIN d \cup (IF ext THEN UNION {Range(d[u]) : u \in DOMAIN d} ELSE {})
\* load_crawler_json + build_digraph: the edge set of G (a DiGraph holds an
\* edge once however often the list names it)
LoadEdges(d, ext) ==
  {e \in (DOMAIN d) \X Accounts :
     /\ e[2] \in Range(d[e[1]])
     /\ (ext \/ e[2] \in DOMAIN d)}

get_reciprocal_edges(E) == {e \in E : <<e[2], e[1]>> \in E}

----------------------------------------------------------------------------
(* networkx.betweenness_centrality(G, k, normalized=True, seed=1): Brandes'  *)
(* dependency accumulation from k sampled pivots.  The values are rationals; *)
(* they are kept as integer numerators over one common denominator.          *)

RECURSIVE BfsDist(_, _, _, _, _)
BfsDist(E, frontier, seen, d, acc) ==
  LET nxt == UNION {Successors(E, u) : u \in frontier} \ seen IN
  IF nxt = {} THEN acc
  ELSE BfsDist(E, nxt, seen \cup nxt, d + 1,
               [n \in DOMAIN acc |-> IF n \in nxt THEN d + 1 ELSE acc[n]])

\* directed breadth-first distance from s to every node of N; -1: unreachable
DistFrom(N, E, s) ==
  BfsDist(E, {s}, {s}, 0, [n \in N |-> IF n = s THEN 0 ELSE 0 - 1])

RECURSIVE Gcd(_, _)
Gcd(a, b) == IF b = 0 THEN a ELSE Gcd(b, a % b)
RECURSIVE LcmOver(_)
LcmOver(S) ==
  IF S = {} THEN 1
  ELSE LET x == CHOOSE x \in S : TRUE
           r == LcmOver(S \ {x})
       IN (x * r) \div Gcd(x, r)

RECURSIVE SimplePaths(_, _, _)
\* the directed paths of at most len further edges that extend the paths of P
\* without repeating a node
SimplePaths(E, P, len) ==
  IF len = 0 \/ P = {} THEN P
  ELSE P \cup SimplePaths(E,
         UNION {{Append(w, v) : v \in Successors(E, w[Len(w)]) \ Range(w)} : w \in P},
         len - 1)

\* The betweenness of every node from the pivots sampled, k their number:
\* the sum over pivots s and targets t of the fraction of the shortest s-t paths
\* that pass through the node, rescaled as networkx does.
Betweenness(N, E, pivots, k) ==
  LET n == Cardinality(N)
      paths == SimplePaths(E, {<<s>> : s \in pivots}, n - 1)
      \* the shortest paths from a pivot to another node
      shortest == {w \in paths :
                     /\ Len(w) >= 2
                     /\ \A r \in paths :
                          (r[1] = w[1] /\ r[Len(r)] = w[Len(w)]) => Len(w) <= Len(r)}
      pairs == {<<w[1], w[Len(w)]>> : w \in shortest}
      Between(st) == {w \in shortest : w[1] = st[1] /\ w[Len(w)] = st[2]}
      L == LcmOver({Cardinality(Between(st)) : st \in pairs})
      raw == [v \in N |->
                LET T == {st \in pairs : st[1] # v /\ st[2] # v}
                IN SumOver(T, [st \in T |->
                     (Cardinality({w \in Between(st) : v \in Range(w)}) * L)
                       \div Cardinality(Between(st))])]
  IN \* _rescale: 1/((n-1)(n-2)) for n > 2, times n/k for the sampling
     IF n > 2
     THEN [num |-> [v \in N |-> raw[v] * n], den |-> L * k * (n - 1) * (n - 2)]
     ELSE [num |-> raw, den |-> L]

\* btw = {}: every btw.get(n, 0.0) is 0.0
NoBetweenness(N) == [num |-> [v \in N |-> 0], den |-> 1]

----------------------------------------------------------------------------
(* filter_graph.py *)

\* the undirected pairs (a, b), a <= b, of the mutual follows
ReciprocalPairs(E) ==
  {IF e[1] <= e[2] THEN e ELSE <<e[2], e[1]>> : e \in get_reciprocal_edges(E)}

RECURSIVE EgoLoopDirected(_, _, _, _)
\* the frontier loop over the directed graph instead of its undirected view
EgoLoopDirected(E, eg, frontier, h) ==
  IF h <= 0 THEN eg
  ELSE LET nxt == UNION {Successors(E, u) : u \in frontier}
       IN EgoLoopDirected(E, eg \cup nxt, nxt, h - 1)

RECURSIVE EgoLoop(_, _, _, _)
\* the frontier loop of main: h more hops
EgoLoop(E, eg, frontier, h) ==
  IF h <= 0 THEN eg
  ELSE LET nxt == UNION {Neighbors(E, u) : u \in frontier}
       IN EgoLoop(E, eg \cup nxt, nxt, h - 1)

EgoSet(N, E, root, hops) ==
  IF root # NoAccount /\ hops > 0 /\ root \in N
  THEN EgoLoop(E, {root}, {root}, hops)
  ELSE {}

RootBonus == 1000000000

\* priority(n) without the root's bonus, times 10 * b.den (an integer)
PriorityLow(E, b, rn, eg, n) ==
  10 * b.den * InDegree(E, n) + b.den * OutDegree(E, n) + 50000 * b.num[n]
  + (IF n \in rn THEN 500 * b.den ELSE 0)
  + (IF n \in eg THEN 250 * b.den ELSE 0)

\* priority(x) >= priority(y); the root's bonus is RootBonus (times 10 * b.den)
PriorityGE(E, b, rn, eg, root, x, y) ==
  LET s == 10 * b.den
      lx == PriorityLow(E, b, rn, eg, x)
      ly == PriorityLow(E, b, rn, eg, y)
      rx == root # NoAccount /\ x = root
      ry == root # NoAccount /\ y = root
  IN IF rx = ry THEN lx >= ly
     ELSE IF rx THEN (ly <= lx \/ ((ly - lx) + s - 1) \div s <= RootBonus)
     ELSE (lx >= ly /\ (lx - ly) \div s >= RootBonus)

\* the sets  set(sorted(list(keep), key=priority, reverse=True)[:max_nodes])  can be
TrimSets(E, b, rn, eg, root, K, max_nodes) ==
  LET ge == {p \in K \X K : PriorityGE(E, b, rn, eg, root, p[1], p[2])}
  IN TopSets(K, ge, max_nodes)

\* the score without its bonus for mutual edges
EdgeScoreNoBonus(S, e) == InDegree(S, e[1]) + InDegree(S, e[2])

\* score of an edge inside the induced subgraph S
EdgeScore(S, e) ==
  InDegree(S, e[1]) + InDegree(S, e[2])
  + (IF e \in get_reciprocal_edges(S) THEN 3 ELSE 0)

\* the lists induced_edge_cap can return
induced_edge_cap(E, K, max_edges) ==
  LET S == Induced(E, K)
      ge == {p \in S \X S : EdgeScore(S, p[1]) >= EdgeScore(S, p[2])}
  IN TopLists(S, ge, SliceLen(Cardinality(S), max_edges))

\* following[u] of adjacency_json_from_edges: the targets of u in list order
RECURSIVE FollowingOf(_, _)
FollowingOf(es, u) ==
  IF es = <<>> THEN <<>>
  ELSE (IF Head(es)[1] = u THEN <<Head(es)[2]>> ELSE <<>>) \o FollowingOf(Tail(es), u)

RECURSIVE VisitRelinking(_, _, _)
\* Visit without the seen test guarding the linked_from assignment
VisitRelinking(u, vs, st) ==
  IF vs = <<>> THEN st
  ELSE LET v == Head(vs) IN
       IF v \notin st.seen
       THEN VisitRelinking(u, Tail(vs),
                  [q |-> Append(st.q, v), seen |-> st.seen \cup {v},
                   lf |-> [st.lf EXCEPT ![v] = u]])
       ELSE VisitRelinking(u, Tail(vs), [st EXCEPT !.lf = [st.lf EXCEPT ![v] = u]])

RECURSIVE Visit(_, _, _)
\* the inner loop over following[u]: st = [q, seen, lf]
Visit(u, vs, st) ==
  IF vs = <<>> THEN st
  ELSE LET v == Head(vs) IN
       IF v \notin st.seen
       THEN Visit(u, Tail(vs),
                  [q |-> Append(st.q, v), seen |-> st.seen \cup {v},
                   lf |-> [st.lf EXCEPT ![v] = u]])
       ELSE Visit(u, Tail(vs), st)

RECURSIVE BfsLoop(_, _)
\* while q: u = q.pop(0); ...
BfsLoop(es, st) ==
  IF st.q = <<>> THEN st.lf
  ELSE LET u == Head(st.q)
       IN BfsLoop(es, Visit(u, FollowingOf(es, u), [st EXCEPT !.q = Tail(st.q)]))

LinkedFrom(K, es, root) ==
  LET blank == [n \in K |-> NoAccount] IN
  IF root # NoAccount /\ root \in K
  THEN BfsLoop(es, [q |-> <<root>>, seen |-> {root}, lf |-> blank])
  ELSE blank

adjacency_json_from_edges(K, es, root) ==
  LET lf == LinkedFrom(K, es, root) IN
  [n \in K |-> [following |-> SortedSeq(Range(FollowingOf(es, n))),
                linked_from |-> lf[n]]]

\* the input graphs: any subset of the accounts crawled (keys), each following
\* any set of other accounts, crawled or not
FollowLists(u) == {SortedSeq(T) : T \in SUBSET (Accounts \ {u})}
FilterInputs ==
  UNION {{d \in [K -> UNION {FollowLists(u) : u \in K}] :
            \A u \in K : d[u] \in FollowLists(u)} : K \in SUBSET Accounts}

Idle == <<>>

\* args holds the command-line values main has read so far; a value is drawn
\* where main first reads it.
FilterInit ==
  /\ pc = "start"
  /\ data \in FilterInputs
  /\ args = Idle
  /\ remote = Idle /\ graph = Idle /\ visited = {} /\ q = <<>>
  /\ nodes = {} /\ edges = {}
  /\ btw = Idle /\ reciprocal_nodes = {} /\ ego = {} /\ keep0 = {} /\ keep = {}
  /\ kept_edges = <<>> /\ out = Idle
  /\ order = Idle /\ edge_list = Idle /\ top_in_degree = Idle /\ top_out_degree = Idle
  /\ reciprocals = Idle /\ shared_counts = Idle /\ cofollow = Idle /\ report = Idle

\* main, lines 142-146
FilterLoad ==
  /\ pc = "start"
  /\ \E ext \in BOOLEAN :
       /\ nodes' = LoadNodes(data, ext)
       /\ edges' = LoadEdges(data, ext)
  /\ pc' = "loaded"
  /\ UNCHANGED <<crawlVars, data, args, btw, reciprocal_nodes, ego, keep0, keep, kept_edges, out, analyzeVars>>

\* main, lines 148-149 (keep0 gathers the union of lines 192-198 as the
\* signal sets are computed)
FilterHubs ==
  /\ pc = "loaded"
  /\ \E top_in \in Caps :
       LET ge == {p \in nodes \X nodes : InDegree(edges, p[1]) >= InDegree(edges, p[2])}
       IN \E hubs \in TopSets(nodes, ge, top_in) : keep0' = hubs
  /\ pc' = "hubs"
  /\ UNCHANGED <<crawlVars, data, args, nodes, edges, btw, reciprocal_nodes, ego, keep, kept_edges,
                 out, analyzeVars>>

\* main, lines 151-157
FilterBridges ==
  /\ pc = "hubs"
  /\ \E top_bridge \in Caps, betweenness_k \in 0..MaxCap :
       IF betweenness_k > 0 /\ top_bridge > 0 /\ Cardinality(nodes) > 0
       THEN LET k == Min(betweenness_k, Cardinality(nodes)) IN
            \E pivots \in {P \in SUBSET nodes : Cardinality(P) = k} :
              LET b == Betweenness(nodes, edges, pivots, k)
                  ge == {p \in nodes \X nodes : b.num[p[1]] >= b.num[p[2]]}
              IN \E bridges \in TopSets(nodes, ge, top_bridge) :
                   /\ btw' = b
                   /\ keep0' = keep0 \cup bridges
       ELSE /\ btw' = NoBetweenness(nodes)
            /\ keep0' = keep0
  /\ pc' = "bridges"
  /\ UNCHANGED <<crawlVars, data, args, nodes, edges, reciprocal_nodes, ego, keep, kept_edges, out, analyzeVars>>

\* main, lines 159-176
FilterReciprocal ==
  /\ pc = "bridges"
  /\ \E keep_reciprocal_pairs \in Caps :
       LET pairs == ReciprocalPairs(edges)
           score == [p \in pairs |-> InDegree(edges, p[1]) + InDegree(edges, p[2])]
           ge == {pq \in pairs \X pairs : score[pq[1]] >= score[pq[2]]}
       IN \E top_pairs \in TopSets(pairs, ge, keep_reciprocal_pairs) :
            /\ reciprocal_nodes' = {p[1] : p \in top_pairs} \cup {p[2] : p \in top_pairs}
            /\ keep0' = keep0 \cup reciprocal_nodes'
  /\ pc' = "recips"
  /\ UNCHANGED <<crawlVars, data, args, nodes, edges, btw, ego, keep, kept_edges, out, analyzeVars>>

\* main, lines 178-198
FilterEgo ==
  /\ pc = "recips"
  /\ \E root \in {NoAccount} \cup Accounts, ego_hops \in 0..MaxHops :
       /\ args' = [root |-> root, ego_hops |-> ego_hops]
       /\ ego' = EgoSet(nodes, edges, root, ego_hops)
       /\ keep0' = keep0 \cup ego'
                   \cup (IF root # NoAccount /\ root \in nodes THEN {root} ELSE {})
  /\ keep' = keep0'
  /\ pc' = "selected"
  /\ UNCHANGED <<crawlVars, data, nodes, edges, btw, reciprocal_nodes, kept_edges, out, analyzeVars>>

\* main, lines 200-216: the priority trim
FilterTrim ==
  /\ pc = "selected"
  /\ \E max_nodes \in Caps :
       /\ args' = args @@ [max_nodes |-> max_nodes]
       /\ IF Cardinality(keep0) > max_nodes
          THEN keep' \in TrimSets(edges, btw, reciprocal_nodes, ego, args.root, keep0,
                                  max_nodes)
          ELSE keep' = keep0
  /\ pc' = "trimmed"
  /\ UNCHANGED <<crawlVars, data, nodes, edges, btw, reciprocal_nodes, ego, keep0, kept_edges,
                 out, analyzeVars>>

\* main, line 219
FilterEdgeCap ==
  /\ pc = "trimmed"
  /\ \E max_edges \in Caps :
       /\ args' = args @@ [max_edges |-> max_edges]
       /\ kept_edges' \in induced_edge_cap(edges, keep, max_edges)
  /\ pc' = "capped"
  /\ UNCHANGED <<crawlVars, data, nodes, edges, btw, reciprocal_nodes, ego, keep0, keep, out, analyzeVars>>

\* main, lines 222-224
FilterEmit ==
  /\ pc = "capped"
  /\ out' = adjacency_json_from_edges(keep, kept_edges, args.root)
  /\ pc' = "done"
  /\ UNCHANGED <<crawlVars, data, args, nodes, edges, btw, reciprocal_nodes, ego, keep0, keep,
                 kept_edges, analyzeVars>>

FilterNext ==
  \/ FilterLoad \/ FilterHubs \/ FilterBridges \/ FilterReciprocal \/ FilterEgo
  \/ FilterTrim \/ FilterEdgeCap \/ FilterEmit

SpecFilter == FilterInit /\ [][FilterNext]_vars

\* The ego step of main as a function of the graph, the root and the hop count:
\* the state is that of main at line 178 in a run with --top-in 0,
\* --betweenness-k 0 and --keep-reciprocal-pairs 0.
EgoInit ==
  /\ pc = "recips"
  /\ data \in FilterInputs
  /\ args = Idle
  /\ remote = Idle /\ graph = Idle /\ visited = {} /\ q = <<>>
  /\ \E ext \in BOOLEAN :
       /\ nodes = LoadNodes(data, ext)
       /\ edges = LoadEdges(data, ext)
  /\ btw = NoBetweenness(nodes) /\ reciprocal_nodes = {} /\ ego = {} /\ keep0 = {}
  /\ keep = {} /\ kept_edges = <<>> /\ out = Idle
  /\ order = Idle /\ edge_list = Idle /\ top_in_degree = Idle /\ top_out_degree = Idle
  /\ reciprocals = Idle /\ shared_counts = Idle /\ cofollow = Idle /\ report = Idle

SpecEgo == EgoInit /\ [][FilterEgo]_vars

\* induced_edge_cap as a function of its arguments: any graph of at most
\* MaxCapEdges edges over NumCapAccounts accounts, any set of kept nodes of it,
\* any cap.  The state is that of main at line 218.
NumCapAccounts == 4
MaxCapEdges == 4

EdgeCapGraphs ==
  LET A == 1..NumCapAccounts
  IN {E \in SUBSET {e \in A \X A : e[1] # e[2]} : Cardinality(E) <= MaxCapEdges}

EdgeCapInit ==
  /\ pc = "trimmed"
  /\ edges \in EdgeCapGraphs
  /\ nodes = 1..NumCapAccounts
  /\ data = [u \in nodes |-> SortedSeq(Successors(edges, u))]
  /\ args = [root |-> NoAccount, ego_hops |-> 0, max_nodes |-> NumCapAccounts]
  /\ remote = Idle /\ graph = Idle /\ visited = {} /\ q = <<>>
  /\ keep \in SUBSET nodes
  /\ btw = NoBetweenness(nodes) /\ reciprocal_nodes = {} /\ ego = {} /\ keep0 = keep
  /\ kept_edges = <<>> /\ out = Idle
  /\ order = Idle /\ edge_list = Idle /\ top_in_degree = Idle /\ top_out_degree = Idle
  /\ reciprocals = Idle /\ shared_counts = Idle /\ cofollow = Idle /\ report = Idle

SpecEdgeCap == EdgeCapInit /\ [][FilterEdgeCap]_vars

----------------------------------------------------------------------------
(* adjacency_json_from_edges as a function of its arguments: any kept node    *)
(* set, any list of distinct edges between kept nodes, any root.  The state   *)
(* is that of main at line 222 in a run that kept every node of the graph.    *)

MaxEdgeList == 3

RECURSIVE DistinctLists(_, _)
\* the lists of at most k distinct elements of S
DistinctLists(S, k) ==
  IF k = 0 THEN {<<>>}
  ELSE {<<>>} \cup UNION {{<<e>> \o r : r \in DistinctLists(S \ {e}, k - 1)} : e \in S}

AdjacencyInit ==
  /\ pc = "capped"
  /\ data = Idle
  /\ keep \in SUBSET Accounts
  /\ kept_edges \in DistinctLists(keep \X keep, MaxEdgeList)
  /\ \E root \in {NoAccount} \cup Accounts :
       args = [root |-> root, ego_hops |-> 0, max_nodes |-> NumAccounts,
               max_edges |-> MaxEdgeList]
  /\ remote = Idle /\ graph = Idle /\ visited = {} /\ q = <<>>
  /\ nodes = keep /\ edges = Range(kept_edges)
  /\ btw = NoBetweenness(keep) /\ reciprocal_nodes = {} /\ ego = {} /\ keep0 = keep
  /\ out = Idle
  /\ order = Idle /\ edge_list = Idle /\ top_in_degree = Idle /\ top_out_degree = Idle
  /\ reciprocals = Idle /\ shared_counts = Idle /\ cofollow = Idle /\ report = Idle

SpecAdjacency == AdjacencyInit /\ [][FilterEmit]_vars

----------------------------------------------------------------------------
(* analyze_graph.py *)

MaxFollow == 2
FollowerCap == 5000
SccTop == 10
SccShow == 50
DefaultTop == 50

RECURSIVE Perms(_)
\* the orders in which a set can be iterated
Perms(S) ==
  IF S = {} THEN {<<>>}
  ELSE UNION {{<<x>> \o t : t \in Perms(S \ {x})} : x \in S}

\* s[:k]
Slice(s, k) == SubSeq(s, 1, SliceLen(Len(s), k))

RECURSIVE StableSortDesc(_, _)
\* sorted(s, key=..., reverse=True): descending by key[x], ties in the order of s
StableSortDesc(s, key) ==
  IF s = <<>> THEN <<>>
  ELSE LET m == CHOOSE i \in 1..Len(s) :
                  /\ \A j \in 1..Len(s) : key[s[j]] <= key[s[i]]
                  /\ \A j \in 1..(i - 1) : key[s[j]] < key[s[i]]
       IN <<s[m]>> \o StableSortDesc(SubSeq(s, 1, m - 1) \o SubSeq(s, m + 1, Len(s)), key)

RECURSIVE LoadList(_, _)
LoadList(d, ks) ==
  IF ks = <<>> THEN <<>>
  ELSE LET u == Head(ks)
           f == SelectSeq(d[u], LAMBDA v : v \in DOMAIN d)
       IN [i \in 1..Len(f) |-> <<u, f[i]>>] \o LoadList(d, Tail(ks))

\* load_graph: the edge list, one entry per occurrence of a known target
load_graph(d) == LoadList(d, SortedSeq(DOMAIN d))

RECURSIVE Dedupe(_)
\* the first occurrences of a list's elements, in order
Dedupe(s) ==
  IF s = <<>> THEN <<>>
  ELSE LET r == Dedupe(SubSeq(s, 1, Len(s) - 1))
       IN IF s[Len(s)] \in Range(r) THEN r ELSE Append(r, s[Len(s)])

RECURSIVE GEdges(_, _)
\* G.edges(): node by node in G's node order, each node's edges in the order added
GEdges(ord, el) ==
  IF ord = <<>> THEN <<>>
  ELSE Dedupe(SelectSeq(el, LAMBDA e : e[1] = Head(ord))) \o GEdges(Tail(ord), el)

\* sorted(deg.items(), key=degree, reverse=True)[:top]
Ranking(ord, deg, top) ==
  LET r == StableSortDesc(ord, deg)
  IN Slice([i \in 1..Len(r) |-> <<r[i], deg[r[i]]>>], top)

RECURSIVE ReciprocalLoopNoSeen(_, _, _, _)
\* the loop without its seen test
ReciprocalLoopNoSeen(es, E, acc, seen) ==
  IF es = <<>> THEN acc
  ELSE LET u == Head(es)[1]
           v == Head(es)[2]
       IN IF <<v, u>> \in E
          THEN ReciprocalLoopNoSeen(Tail(es), E, Append(acc, <<u, v>>), seen)
          ELSE ReciprocalLoopNoSeen(Tail(es), E, acc, seen)

RECURSIVE ReciprocalLoop(_, _, _, _)
\* main, lines 55-61
ReciprocalLoop(es, E, acc, seen) ==
  IF es = <<>> THEN acc
  ELSE LET u == Head(es)[1]
           v == Head(es)[2]
       IN IF <<v, u>> \in E /\ <<v, u>> \notin seen
          THEN ReciprocalLoop(Tail(es), E, Append(acc, <<u, v>>),
                              seen \cup {<<u, v>>, <<v, u>>})
          ELSE ReciprocalLoop(Tail(es), E, acc, seen)

\* main, lines 64-68
ReciprocalRanked(rs, E, top) ==
  LET score == [p \in Range(rs) |-> InDegree(E, p[1]) + InDegree(E, p[2])]
      r == StableSortDesc(rs, score)
  IN Slice([i \in 1..Len(r) |-> [a |-> r[i][1], b |-> r[i][2], score |-> score[r[i]]]], top)

\* jaccard(a, b) as the fraction <<numerator, denominator>>; 0.0 is <<0, 1>>
jaccard(A, B) ==
  IF A = {} /\ B = {} THEN <<0, 1>>
  ELSE <<Cardinality(A \cap B), Cardinality(A \cup B)>>

\* inv[tgt]: the followers of tgt, in the order the node set is iterated
Followers(ord, E, tgt) == SelectSeq(ord, LAMBDA u : <<u, tgt>> \in E)

\* combinations(followers, 2) without the sorted(): pairs in list order
CombinationsUnsorted(f) ==
  UNION {{<<f[i], f[j]>> : j \in (i + 1)..Len(f)} : i \in 1..Len(f)}

\* combinations(sorted(followers), 2): the pairs (a, b), a before b in sorted order
Combinations(f) == {p \in Range(f) \X Range(f) : p[1] < p[2]}

\* main, lines 81-89: the Counter, 0 for a pair never counted
SharedCounts(ord, N, E) ==
  [p \in {ab \in N \X N : ab[1] < ab[2]} |->
     Cardinality({t \in N :
        LET f == Followers(ord, E, t)
        IN Len(f) >= 2 /\ p \in Combinations(Slice(f, FollowerCap))})]

RECURSIVE CofollowScan(_, _, _, _, _, _)
\* main, lines 93-99, over the candidates in most_common() order
CofollowScan(L, sc, E, acc, min_shared, top) ==
  IF L = <<>> THEN acc
  ELSE LET p == Head(L)
           c == sc[p]
       IN IF c < min_shared THEN acc
          ELSE LET acc2 == Append(acc, [a |-> p[1], b |-> p[2], shared |-> c,
                                        jaccard |-> jaccard(Successors(E, p[1]),
                                                            Successors(E, p[2]))])
               IN IF Len(acc2) >= top THEN acc2
                  ELSE CofollowScan(Tail(L), sc, E, acc2, min_shared, top)

\* the orders shared_counts.most_common() can give: count descending, ties in
\* the order the pairs entered the Counter
MostCommon(sc) ==
  LET cand == {p \in DOMAIN sc : sc[p] > 0}
      ge == {p \in cand \X cand : sc[p[1]] >= sc[p[2]]}
  IN TopLists(cand, ge, Cardinality(cand))

RECURSIVE Reachable(_, _)
\* the nodes reachable from S along directed edges, S included
Reachable(E, S) ==
  LET T == S \cup UNION {Successors(E, u) : u \in S}
  IN IF T = S THEN S ELSE Reachable(E, T)

\* components by reachability in one direction only
ComponentsOneWay(N, E) ==
  LET R == {ab \in N \X N : ab[2] \in Reachable(E, {ab[1]})}
  IN {{m \in N : <<n, m>> \in R \/ <<m, n>> \in R} : n \in N}

\* nx.strongly_connected_components(G)
Components(N, E) ==
  LET R == {ab \in N \X N : ab[2] \in Reachable(E, {ab[1]})}
  IN {{m \in N : <<n, m>> \in R /\ <<m, n>> \in R} : n \in N}

\* main, lines 110-116: the lists top_sccs can be
TopSccs(N, E) ==
  LET C == Components(N, E)
      ge == {p \in C \X C : Cardinality(p[1]) >= Cardinality(p[2])}
  IN {LET big == SelectSeq(L, LAMBDA c : Cardinality(c) > 1)
      IN [i \in 1..Len(big) |->
            [size |-> Cardinality(big[i]), nodes |-> Slice(SortedSeq(big[i]), SccShow)]]
      : L \in TopLists(C, ge, SliceLen(Cardinality(C), SccTop))}

\* main, line 107
TopBridge(ord, b, top) ==
  LET r == StableSortDesc(ord, b.num)
  IN Slice([i \in 1..Len(r) |-> [node |-> r[i], betweenness |-> <<b.num[r[i]], b.den>>]], top)

\* the following lists of the inputs: a list may repeat an identifier, name the
\* account itself or name an account that was not crawled
AnalyzeLists ==
  {f \in UNION {[1..m -> Accounts] : m \in 0..MaxFollow} :
     \A i \in 1..(Len(f) - 1) : f[i] <= f[i + 1]}
AnalyzeInputs == UNION {[K -> AnalyzeLists] : K \in SUBSET Accounts}

AnalyzeInit ==
  /\ pc = "start"
  /\ data \in AnalyzeInputs
  /\ args = Idle
  /\ remote = Idle /\ graph = Idle /\ visited = {} /\ q = <<>>
  /\ nodes = {} /\ edges = {}
  /\ btw = Idle /\ reciprocal_nodes = {} /\ ego = {} /\ keep0 = {} /\ keep = {}
  /\ kept_edges = <<>> /\ out = Idle
  /\ order = Idle /\ edge_list = Idle /\ top_in_degree = Idle /\ top_out_degree = Idle
  /\ reciprocals = Idle /\ shared_counts = Idle /\ cofollow = Idle /\ report = Idle

\* main, lines 41-45
AnalyzeLoad ==
  /\ pc = "start"
  /\ nodes' = DOMAIN data
  /\ edge_list' = load_graph(data)
  /\ edges' = Range(edge_list')
  /\ order' \in Perms(nodes')
  /\ pc' = "loaded"
  /\ UNCHANGED <<crawlVars, data, args, filterVars, top_in_degree, top_out_degree, reciprocals,
                 shared_counts, cofollow, report>>

\* main, lines 47-52
AnalyzeDegrees ==
  /\ pc = "loaded"
  /\ \E top \in Caps \cup {DefaultTop} :
       /\ args' = [top |-> top]
       /\ top_in_degree' = Ranking(order, [n \in nodes |-> InDegree(edges, n)], top)
       /\ top_out_degree' = Ranking(order, [n \in nodes |-> OutDegree(edges, n)], top)
  /\ pc' = "degrees"
  /\ UNCHANGED <<crawlVars, data, nodes, edges, filterVars, order, edge_list, reciprocals,
                 shared_counts, cofollow, report>>

\* main, lines 54-61
AnalyzeReciprocals ==
  /\ pc = "degrees"
  /\ reciprocals' = ReciprocalLoop(GEdges(order, edge_list), edges, <<>>, {})
  /\ pc' = "recips"
  /\ UNCHANGED <<crawlVars, data, args, nodes, edges, filterVars, order, edge_list, top_in_degree,
                 top_out_degree, shared_counts, cofollow, report>>

\* main, lines 70-99
AnalyzeCofollow ==
  /\ pc = "recips"
  /\ shared_counts' = SharedCounts(order, nodes, edges)
  /\ \E min_shared \in 0..MaxCap :
       /\ args' = args @@ [min_shared |-> min_shared]
       /\ \E L \in MostCommon(shared_counts') :
            cofollow' = CofollowScan(L, shared_counts', edges, <<>>, min_shared, args.top)
  /\ pc' = "cofollow"
  /\ UNCHANGED <<crawlVars, data, nodes, edges, filterVars, order, edge_list, top_in_degree,
                 top_out_degree, reciprocals, report>>

\* main, lines 101-133
AnalyzeReport ==
  /\ pc = "cofollow"
  /\ \E approx_betweenness_k \in {0, MaxCap} :
       LET k == Min(approx_betweenness_k, Cardinality(nodes)) IN
       \E pivots \in {P \in SUBSET nodes : Cardinality(P) = k},
          top_sccs \in TopSccs(nodes, edges) :
         report' =
           [summary |-> [nodes |-> Cardinality(nodes), edges |-> Len(edge_list),
                         reciprocal_pairs |-> Len(reciprocals)],
            top_in_degree |-> top_in_degree,
            top_out_degree |-> top_out_degree,
            top_reciprocals |-> ReciprocalRanked(reciprocals, edges, args.top),
            top_cofollow_pairs |-> cofollow,
            top_bridges_betweenness |->
              IF k > 0
              THEN TopBridge(order, Betweenness(nodes, edges, pivots, k), args.top)
              ELSE <<>>,
            top_strongly_connected_components |-> top_sccs]
  /\ pc' = "done"
  /\ UNCHANGED <<crawlVars, data, args, nodes, edges, filterVars, order, edge_list, top_in_degree,
                 top_out_degree, reciprocals, shared_counts, cofollow>>

AnalyzeNext ==
  \/ AnalyzeLoad \/ AnalyzeDegrees \/ AnalyzeReciprocals \/ AnalyzeCofollow
  \/ AnalyzeReport

SpecAnalyze == AnalyzeInit /\ [][AnalyzeNext]_vars

\* The end-to-end scenario: accounts A, B, C, D are 1, 2, 3, 4 and the edges are
\* A->B, B->A, A->C, C->D, D->C.  A's list is taken in both orders, and the
\* graph with and without a fifth account 5 that follows nobody.
ScenarioInputs ==
  {[k \in K |-> CASE k = 1 -> fa [] k = 2 -> <<1>> [] k = 3 -> <<4>>
                   [] k = 4 -> <<3>> [] OTHER -> <<>>] :
     K \in {1..4, 1..5}, fa \in {<<2, 3>>, <<3, 2>>}}

ScenarioInit ==
  /\ pc = "start"
  /\ data \in ScenarioInputs
  /\ args = Idle
  /\ remote = Idle /\ graph = Idle /\ visited = {} /\ q = <<>>
  /\ nodes = {} /\ edges = {}
  /\ btw = Idle /\ reciprocal_nodes = {} /\ ego = {} /\ keep0 = {} /\ keep = {}
  /\ kept_edges = <<>> /\ out = Idle
  /\ order = Idle /\ edge_list = Idle /\ top_in_degree = Idle /\ top_out_degree = Idle
  /\ reciprocals = Idle /\ shared_counts = Idle /\ cofollow = Idle /\ report = Idle

SpecScenario == ScenarioInit /\ [][AnalyzeNext]_vars

----------------------------------------------------------------------------
(* bsky_friend_network_analyzer.py: the crawler.  Every account the network   *)
(* serves has a DID and a handle, so an account's name and its identifier     *)
(* are modelled by the same integer.                                          *)

\* get_all_follows: the pages concatenated, cut at max_items once that many
\* items have been read (for max_items >= 0 the page size does not change it)
get_all_follows(fs, limited, max_items) ==
  IF limited /\ Len(fs) >= max_items THEN Slice(fs, max_items) ELSE fs

\* main.record_node
record_node(g, name, linked_from) ==
  IF name \notin DOMAIN g
  THEN g @@ (name :> [following |-> <<>>, linked_from |-> linked_from, did |-> name])
  ELSE IF g[name].linked_from = NoAccount /\ linked_from # NoAccount
       THEN [g EXCEPT ![name].linked_from = linked_from]
       ELSE g

RECURSIVE FollowLoop(_, _, _, _, _)
\* main, lines 182-197: the loop over one actor's follows, with its break
FollowLoop(fs, actor_name, d, max_accounts, st) ==
  IF fs = <<>> THEN st
  ELSE LET nm == Head(fs)
           st1 == [st EXCEPT !.graph = record_node(st.graph, nm, actor_name),
                             !.following_names = Append(@, nm)]
       IN IF nm \notin st.visited
          THEN IF Cardinality(st.visited) >= max_accounts
               THEN st1
               ELSE FollowLoop(Tail(fs), actor_name, d, max_accounts,
                               [st1 EXCEPT !.visited = @ \cup {nm},
                                           !.q = Append(@, <<nm, d + 1>>)])
          ELSE FollowLoop(Tail(fs), actor_name, d, max_accounts, st1)

\* what the network serves: every account follows a list of other accounts
RemoteGraphs ==
  {r \in [Accounts -> UNION {DistinctLists(Accounts \ {u}, NumAccounts - 1) : u \in Accounts}] :
     \A u \in Accounts : u \notin Range(r[u])}

\* --max-follows-per-account: absent (None) or a number
FollowLimits ==
  {[limited |-> FALSE, max_items |-> 0]} \cup {[limited |-> TRUE, max_items |-> k] : k \in 0..MaxHops}

CrawlInit ==
  /\ pc = "start"
  /\ remote \in RemoteGraphs
  /\ \E root_actor \in Accounts, depth \in (0 - 1)..MaxHops, max_accounts \in Caps,
        lim \in FollowLimits :
       args = [root_actor |-> root_actor, depth |-> depth, max_accounts |-> max_accounts,
               max_follows_per_account |-> lim]
  /\ graph = Idle /\ visited = {} /\ q = <<>>
  /\ data = Idle
  /\ nodes = {} /\ edges = {}
  /\ btw = Idle /\ reciprocal_nodes = {} /\ ego = {} /\ keep0 = {} /\ keep = {}
  /\ kept_edges = <<>> /\ out = Idle
  /\ order = Idle /\ edge_list = Idle /\ top_in_degree = Idle /\ top_out_degree = Idle
  /\ reciprocals = Idle /\ shared_counts = Idle /\ cofollow = Idle /\ report = Idle

crawlRest == <<data, nodes, edges, filterVars, analyzeVars>>

\* main, lines 107-109
CrawlReject ==
  /\ pc = "start"
  /\ args.depth < 0
  /\ pc' = "rejected"
  /\ UNCHANGED <<args, crawlVars, crawlRest>>

\* main, lines 142-161
CrawlSeed ==
  /\ pc = "start"
  /\ args.depth >= 0
  /\ visited' = {args.root_actor}
  /\ graph' = record_node(Idle, args.root_actor, NoAccount)
  /\ q' = <<<<args.root_actor, 0>>>>
  /\ pc' = "crawl"
  /\ UNCHANGED <<args, remote, crawlRest>>

\* main, lines 163-166: an actor at the depth limit is not expanded
CrawlSkip ==
  /\ pc = "crawl"
  /\ q # <<>>
  /\ Head(q)[2] >= args.depth
  /\ q' = Tail(q)
  /\ UNCHANGED <<pc, args, remote, graph, visited, crawlRest>>

\* main, lines 163-170: the safety cap ends the crawl
CrawlBreak ==
  /\ pc = "crawl"
  /\ q # <<>>
  /\ Head(q)[2] < args.depth
  /\ Cardinality(visited) >= args.max_accounts
  /\ q' = Tail(q)
  /\ pc' = "dump"
  /\ UNCHANGED <<args, remote, graph, visited, crawlRest>>

\* main, lines 163-199: one actor's follows are fetched and recorded
CrawlFetch ==
  /\ pc = "crawl"
  /\ q # <<>>
  /\ Head(q)[2] < args.depth
  /\ Cardinality(visited) < args.max_accounts
  /\ LET actor_name == Head(q)[1]
         d == Head(q)[2]
         follows_views == get_all_follows(remote[actor_name],
                                          args.max_follows_per_account.limited,
                                          args.max_follows_per_account.max_items)
         st == FollowLoop(follows_views, actor_name, d, args.max_accounts,
                          [graph |-> graph, visited |-> visited, q |-> Tail(q),
                           following_names |-> <<>>])
     IN /\ graph' = [st.graph EXCEPT ![actor_name].following = st.following_names]
        /\ visited' = st.visited
        /\ q' = st.q
  /\ UNCHANGED <<pc, args, remote, crawlRest>>

\* get_all_follows, lines 61-75: every retry failed and RuntimeError ends main
CrawlFetchFails ==
  /\ pc = "crawl"
  /\ q # <<>>
  /\ Head(q)[2] < args.depth
  /\ Cardinality(visited) < args.max_accounts
  /\ pc' = "failed"
  /\ UNCHANGED <<args, crawlVars, crawlRest>>

\* main, lines 201-204: the graph store is written
CrawlDump ==
  /\ \/ pc = "crawl" /\ q = <<>>
     \/ pc = "dump"
  /\ pc' = "written"
  /\ UNCHANGED <<args, crawlVars, crawlRest>>

CrawlNext ==
  \/ CrawlReject \/ CrawlSeed \/ CrawlSkip \/ CrawlBreak \/ CrawlFetch
  \/ CrawlFetchFails \/ CrawlDump

SpecCrawl == CrawlInit /\ [][CrawlNext]_vars

----------------------------------------------------------------------------
(* Claims about filter_graph.py, checked under SpecFilter (C10: under          *)
(* SpecAdjacency)                                                            *)

Trimmed == pc \in {"trimmed", "capped", "done"}
Capped == pc \in {"capped", "done"}
RootInGraph == args.root # NoAccount /\ args.root \in nodes

\* C1: if a root is given and is a node of the graph, the root is in the final
\* kept node set, whatever the configuration (--max-nodes included).
C1_RootAlwaysKept == (Trimmed /\ RootInGraph) => args.root \in keep

\* C1, the part the code keeps: with a node cap of at least 1 the root stays.
C1_RootKeptUnderPositiveCap ==
  (Trimmed /\ RootInGraph /\ args.max_nodes >= 1) => args.root \in keep

\* x comes before y when sorted by priority descending, identifier ascending
PriorityBefore(x, y) ==
  LET ge(a, b) == PriorityGE(edges, btw, reciprocal_nodes, ego, args.root, a, b)
  IN IF ge(x, y) /\ ge(y, x) THEN x < y ELSE ge(x, y)

\* the first cap nodes of K by priority descending, identifier ascending
FirstByPriorityThenId(K, cap) ==
  {x \in K : Cardinality({y \in K : y # x /\ PriorityBefore(y, x)}) < cap}

\* C2: when the union exceeds the node cap, the kept set is exactly the first
\* cap nodes of the union by priority descending, ties by identifier ascending.
C2_TrimIsByPriorityThenId ==
  (Trimmed /\ args.max_nodes >= 0 /\ Cardinality(keep0) > args.max_nodes)
    => keep = FirstByPriorityThenId(keep0, args.max_nodes)

\* C3: the number of edges induced_edge_cap returns never exceeds the edge cap,
\* and a cap of at least the number of induced edges returns them all.
C3_EdgeCapRespected ==
  Capped =>
    /\ Len(kept_edges) <= args.max_edges
    /\ (args.max_edges >= Cardinality(Induced(edges, keep))
          => /\ Range(kept_edges) = Induced(edges, keep)
             /\ Len(kept_edges) = Cardinality(Induced(edges, keep)))

\* C3, the part the code keeps: a cap that is not negative is respected.
C3_NonNegativeEdgeCapRespected ==
  (Capped /\ args.max_edges >= 0) =>
    /\ Len(kept_edges) <= args.max_edges
    /\ (args.max_edges >= Cardinality(Induced(edges, keep))
          => /\ Range(kept_edges) = Induced(edges, keep)
             /\ Len(kept_edges) = Cardinality(Induced(edges, keep)))

\* C9: a configuration with a negative cap is rejected before any computation:
\* no selection is computed and no output is written for it.
C9_NegativeCapRejected ==
  /\ Trimmed => args.max_nodes >= 0
  /\ Capped => args.max_edges >= 0

\* C10: with a kept root, the root's linked_from is blank, every other kept node
\* reachable from the root over the kept edges is linked from a node one
\* breadth-first step nearer the root along a kept edge, and every unreachable
\* node has a blank linked_from; without a kept root every linked_from is blank.
C10_LinkedFromIsBfsParent ==
  pc = "done" =>
    LET E == Range(kept_edges) IN
    IF args.root # NoAccount /\ args.root \in keep
    THEN LET dist == DistFrom(keep, E, args.root) IN
         /\ out[args.root].linked_from = NoAccount
         /\ \A n \in keep \ {args.root} :
              LET p == out[n].linked_from IN
              IF dist[n] >= 1
              THEN p \in keep /\ <<p, n>> \in E /\ dist[p] = dist[n] - 1
              ELSE p = NoAccount
    ELSE \A n \in keep : out[n].linked_from = NoAccount

\* C10 witness: a node two kept edges away from the kept root, linked from a
\* node next to the root, that follows the root back.
C10_Witness ==
  /\ pc = "done" /\ args.root # NoAccount /\ args.root \in keep
  /\ \E n \in keep :
       /\ DistFrom(keep, Range(kept_edges), args.root)[n] = 2
       /\ out[n].linked_from \notin {NoAccount, args.root}
       /\ <<n, args.root>> \in Range(kept_edges)

Selected == pc \in {"selected", "trimmed", "capped", "done"}

\* breadth-first distance from the root in the undirected view of the graph
UndirectedDist ==
  DistFrom(nodes, edges \cup {<<e[2], e[1]>> : e \in edges}, args.root)

\* C13: when the root is a node of the graph and the hop count H is positive,
\* the ego set is exactly the set of nodes at undirected distance at most H
\* from the root, the root included.
C13_EgoIsUndirectedBall ==
  (Selected /\ RootInGraph /\ args.ego_hops > 0) =>
    ego = {n \in nodes : UndirectedDist[n] >= 0 /\ UndirectedDist[n] <= args.ego_hops}

\* C13 witness: two hops from a root; the second frontier holds the root again
\* and a node two hops away that is reached against the direction of an edge.
C13_Witness ==
  /\ Selected /\ RootInGraph /\ args.ego_hops = 2
  /\ \E a, b \in ego :
       /\ UndirectedDist[a] = 1 /\ UndirectedDist[b] = 2
       /\ <<b, a>> \in edges /\ <<a, b>> \notin edges

\* the score of C14, with the in-degrees of the induced subgraph
InducedEdges == {e \in edges : e[1] \in keep /\ e[2] \in keep}
InducedScore(e) ==
  Cardinality({x \in InducedEdges : x[2] = e[1]})
  + Cardinality({x \in InducedEdges : x[2] = e[2]})
  + (IF <<e[2], e[1]>> \in InducedEdges THEN 3 ELSE 0)

\* the same score with the in-degrees of the whole graph
WholeGraphScore(e) ==
  Cardinality({x \in edges : x[2] = e[1]}) + Cardinality({x \in edges : x[2] = e[2]})
  + (IF <<e[2], e[1]>> \in InducedEdges THEN 3 ELSE 0)

\* C14: every returned edge is an edge between kept nodes, and no edge of the
\* induced subgraph that is left out scores strictly higher than a returned one.
C14_HighestScoringEdgesKept ==
  Capped =>
    /\ \A i \in 1..Len(kept_edges) : kept_edges[i] \in InducedEdges
    /\ \A e \in Range(kept_edges) : \A f \in InducedEdges \ Range(kept_edges) :
         InducedScore(f) <= InducedScore(e)

\* C14 read with the in-degrees of the whole graph
C14_HighestByWholeGraphDegree ==
  Capped =>
    \A e \in Range(kept_edges) : \A f \in InducedEdges \ Range(kept_edges) :
      WholeGraphScore(f) <= WholeGraphScore(e)

\* C14 witness: the cap cut the induced edges; a mutual edge was returned whose
\* score exceeds that of an edge left out only by the bonus, and a node outside
\* the kept set has an edge into it.
C14_Witness ==
  /\ Capped
  /\ Len(kept_edges) > 0 /\ Len(kept_edges) < Cardinality(InducedEdges)
  /\ \E e \in Range(kept_edges) : \E f \in InducedEdges \ Range(kept_edges) :
       /\ <<e[2], e[1]>> \in InducedEdges
       /\ InducedScore(e) > InducedScore(f)
       /\ InducedScore(e) - 3 <= InducedScore(f)
  /\ \E x \in edges : x[1] \notin keep /\ x[2] \in keep

----------------------------------------------------------------------------
(* Claims about analyze_graph.py, checked under SpecAnalyze *)

Ranked == pc \in {"degrees", "recips", "cofollow", "done"}
Paired == pc \in {"recips", "cofollow", "done"}
Counted == pc \in {"cofollow", "done"}

\* the unordered pairs {a, b} with both a -> b and b -> a in E
MutualPairs(E) == {{e[1], e[2]} : e \in {e \in E : <<e[2], e[1]>> \in E}}

\* C4: an unordered pair {a, b} is in the reciprocal list iff both (a, b) and
\* (b, a) are edges, each pair is listed once, and so the set of pairs is the
\* same for every order in which the edges are iterated.
C4_ReciprocalPairsExactOnce ==
  Paired =>
    /\ {{reciprocals[i][1], reciprocals[i][2]} : i \in 1..Len(reciprocals)}
         = MutualPairs(edges)
    /\ Len(reciprocals) = Cardinality(MutualPairs(edges))

\* C4 witness: two mutual pairs beside a one-way edge, one pair listed from its
\* larger identifier because of the iteration order.
C4_Witness ==
  /\ Paired
  /\ Len(reciprocals) = 2
  /\ \A i \in 1..2 : reciprocals[i][1] # reciprocals[i][2]
  /\ \E i \in 1..2 : reciprocals[i][1] > reciprocals[i][2]
  /\ \E e \in edges : <<e[2], e[1]>> \notin edges

\* C5: when no target's follower list exceeds the follower cap, the count of
\* every pair (a, b), a < b, equals |A \cap B| for the two following sets.
C5_SharedCountIsIntersection ==
  (Counted /\ \A t \in nodes : Len(Followers(order, edges, t)) <= FollowerCap) =>
    \A a \in nodes : \A b \in nodes :
      a < b => shared_counts[<<a, b>>]
                 = Cardinality(Successors(edges, a) \cap Successors(edges, b))

\* C5 witness: a pair sharing two targets while the accounts are iterated in
\* descending order, and a pair sharing none.
C5_Witness ==
  /\ Counted
  /\ Len(order) = NumAccounts /\ order[1] > order[2] /\ order[2] > order[3]
  /\ \E p \in DOMAIN shared_counts : shared_counts[p] = 2
  /\ \E p \in DOMAIN shared_counts : shared_counts[p] = 0

\* C6: for every top-K >= 0 and every floor, the co-follow list has at most
\* top-K pairs, each with shared >= the floor, in non-increasing order of shared.
C6_CofollowBounded ==
  (Counted /\ args.top >= 0) =>
    /\ Len(cofollow) <= args.top
    /\ \A i \in 1..Len(cofollow) : cofollow[i].shared >= args.min_shared
    /\ \A i \in 1..(Len(cofollow) - 1) : cofollow[i].shared >= cofollow[i + 1].shared

\* C6, the part the code keeps: for top-K >= 1.
C6_CofollowBoundedPositiveTop ==
  (Counted /\ args.top >= 1) =>
    /\ Len(cofollow) <= args.top
    /\ \A i \in 1..Len(cofollow) : cofollow[i].shared >= args.min_shared
    /\ \A i \in 1..(Len(cofollow) - 1) : cofollow[i].shared >= cofollow[i + 1].shared

\* the nodes by degree descending, ties by identifier ascending, with degrees
RankingByDegreeThenId(N, deg, top) ==
  LET r == StableSortDesc(SortedSeq(N), deg)
  IN Slice([i \in 1..Len(r) |-> <<r[i], deg[r[i]]>>], top)

\* C7: top_in_degree and top_out_degree list the nodes by degree descending,
\* ties by identifier ascending, truncated to top-K, whatever the order in
\* which the node set is iterated.
C7_RankingTiesById ==
  (Ranked /\ args.top >= 0) =>
    /\ top_in_degree
         = RankingByDegreeThenId(nodes, [n \in nodes |-> InDegree(edges, n)], args.top)
    /\ top_out_degree
         = RankingByDegreeThenId(nodes, [n \in nodes |-> OutDegree(edges, n)], args.top)

\* C7, the part the code keeps: the rankings are by degree descending.
C7_RankingByDegree ==
  Ranked =>
    /\ \A i \in 1..(Len(top_in_degree) - 1) : top_in_degree[i][2] >= top_in_degree[i + 1][2]
    /\ \A i \in 1..(Len(top_out_degree) - 1) :
         top_out_degree[i][2] >= top_out_degree[i + 1][2]

\* C8: the sum of in-degrees equals the sum of out-degrees equals the edge
\* count of the report summary, duplicate identifiers in following lists included.
C8_DegreeSumsEqualEdgeCount ==
  pc = "done" =>
    /\ SumOver(nodes, [n \in nodes |-> InDegree(edges, n)])
         = SumOver(nodes, [n \in nodes |-> OutDegree(edges, n)])
    /\ SumOver(nodes, [n \in nodes |-> OutDegree(edges, n)]) = report.summary.edges

\* C8, the part the code keeps: the two degree sums agree.
C8_DegreeSumsAgree ==
  pc = "done" =>
    SumOver(nodes, [n \in nodes |-> InDegree(edges, n)])
      = SumOver(nodes, [n \in nodes |-> OutDegree(edges, n)])

\* The scenario's run without caps: every report section can list every node
ScenarioDone == pc = "done" /\ args.top >= Cardinality(nodes)
ReportedPairs == {{reciprocals[i][1], reciprocals[i][2]} : i \in 1..Len(reciprocals)}
ReportedSccs ==
  {Range(report.top_strongly_connected_components[i].nodes) :
     i \in 1..Len(report.top_strongly_connected_components)}

----------------------------------------------------------------------------
(* Claims about the crawler, checked under SpecCrawl *)

Crawling == pc \in {"crawl", "dump", "written", "failed"}

\* C12: with --max-accounts >= 1, after any sequence of fetches the number of
\* accounts recorded in the graph store never exceeds max-accounts.
C12_MaxAccountsIsHardCap ==
  (Crawling /\ args.max_accounts >= 1) =>
    Cardinality(DOMAIN graph) <= args.max_accounts

\* what does hold: the cap bounds the identifiers enqueued, and the graph store
\* holds at most one account more
C12_VisitedWithinCap ==
  (Crawling /\ args.max_accounts >= 1) =>
    /\ Cardinality(visited) <= args.max_accounts
    /\ visited \subseteq DOMAIN graph
    /\ Cardinality(DOMAIN graph) <= args.max_accounts + 1

====
